---- MODULE Spec2Model ----
(***************************************************************************)
(* Model of the staircase-sampling scripts:                                *)
(*   ITP_data_to_csv.py   load_cormat_itp, dropna, to_csv                  *)
(*   plot_ITP_profile.py  interp_pts, plot_T_S_separate, plot_T_S_together,*)
(*                        plot_profile and the frame loop                  *)
(*   create_gif.py        the images of the animation                      *)
(*                                                                         *)
(* Numbers.  Depths, temperatures and salinities read from a file are      *)
(* integers (in the unit of the file).  Everything computed from them      *)
(* (the resolution s_res/s_rate, the interpolated arrays) is a rational,   *)
(* written <<n, d>> with d > 0 and gcd(n, d) = 1: the number its float64   *)
(* value rounds.  Where the rounding decides the outcome (the length of    *)
(* np.arange, and its last value against stop and against the range of     *)
(* interp1d) the model follows the float64 computation: <<n, d, u>> is the *)
(* float64 u values away from the float64 n/d.                             *)
(***************************************************************************)
EXTENDS Integers, Sequences, FiniteSets, TLC

VARIABLES
    pc,        \* position of the run: which statement executes next
    dat,       \* the dictionary mat73.loadmat returns (ITP_data_to_csv.py)
    pf_df,     \* ITP_data_to_csv.py: the module-level data frame pf_df
    csv,       \* the file 'ITP<id>cormat<pf>.csv' on disk: None or its rows
    fn,        \* which plotting function plot_profile calls
    df,        \* the profile descriptor passed as df
    s_res,     \* argument s_res
    s_rate,    \* argument s_rate
    i_offset,  \* argument i_offset
    data,      \* local data: the rows of the data frame
    new,       \* locals p_new, t_new, s_new
    ss,        \* locals p_ss, t_ss, s_ss
    ret,       \* the value the plotting function returned
    err,       \* the exception that ended the run, or None
    stdout,    \* the messages the run has printed
    mutated,   \* the names of the objects changed in place so far
    frames,    \* the directory 'frames' on disk: whether it exists, its files
    pfs_to_plot, \* plot_ITP_profile.py: the module-level list pfs_to_plot
    ss_pfs,    \* plot_ITP_profile.py: the module-level list ss_pfs
    loop_i,    \* the variable i of the frame loop
    range_stop, \* the argument of range() in the frame loop
    gif        \* the images create_gif.py saved to gif_file

\* the state of one call of a plotting function
plotvars == <<fn, df, i_offset, data, new, ss, ret>>
\* the state of the frame loop and of create_gif.py
scriptvars == <<frames, pfs_to_plot, ss_pfs, loop_i, range_stop, gif>>

vars == <<pc, dat, pf_df, csv, fn, df, s_res, s_rate, i_offset, data, new, ss, ret, err,
          stdout, mutated, frames, pfs_to_plot, ss_pfs, loop_i, range_stop, gif>>

\* the value None of a variable that otherwise holds a string
None == "None"
\* the value None of p_lims, which otherwise holds a pair [low, high]
NoLims == <<>>

(***************************************************************************)
(* Bounds of the explored inputs.                                          *)
(***************************************************************************)
MaxLen == 3
MaxDepth == 3
MaxOffset == 3
MaxFrames == 11

\* the argument of range() in the frame loop: `for i in range(1):`
RangeStop == 1

(***************************************************************************)
(* Exact rational arithmetic.                                              *)
(***************************************************************************)
Abs(n) == IF n < 0 THEN -n ELSE n

RECURSIVE Gcd(_, _)
Gcd(a, b) == IF b = 0 THEN a ELSE Gcd(b, a % b)

\* the rational n/d (d # 0) in lowest terms with a positive denominator
Rat(n, d) ==
    LET g == Gcd(Abs(n), Abs(d))
        sg == IF d < 0 THEN -1 ELSE 1
    IN  <<(sg * n) \div g, (sg * d) \div g>>

RInt(n) == <<n, 1>>
RAdd(a, b) == Rat(a[1] * b[2] + b[1] * a[2], a[2] * b[2])
RSub(a, b) == Rat(a[1] * b[2] - b[1] * a[2], a[2] * b[2])
RMul(a, b) == Rat(a[1] * b[1], a[2] * b[2])
RDiv(a, b) == Rat(a[1] * b[2], a[2] * b[1])
RLt(a, b) == a[1] * b[2] < b[1] * a[2]
RLe(a, b) == a[1] * b[2] <= b[1] * a[2]
\* the least integer >= a
RCeil(a) == -((-a[1]) \div a[2])

(***************************************************************************)
(* Sequences.                                                              *)
(***************************************************************************)
Range(f) == {f[i] : i \in DOMAIN f}

\* Python's min(p) and max(p) over the values of a non-empty column
min(p) == CHOOSE x \in Range(p) : \A y \in Range(p) : x <= y
max(p) == CHOOSE x \in Range(p) : \A y \in Range(p) : y <= x

Col(rows, c) == [i \in 1..Len(rows) |-> rows[i][c]]

(***************************************************************************)
(* str(n) of a Python int, and the literal pandas.DataFrame.query reads    *)
(* back out of the expression string.                                      *)
(***************************************************************************)
Digits == <<"0", "1", "2", "3", "4", "5", "6", "7", "8", "9">>

RECURSIVE str_nat(_)
str_nat(n) ==
    IF n < 10 THEN <<Digits[n + 1]>>
    ELSE str_nat(n \div 10) \o <<Digits[(n % 10) + 1]>>

\* str(x): the characters of the decimal literal
str(n) == IF n < 0 THEN <<"-">> \o str_nat(-n) ELSE str_nat(n)

DigitVal(c) == (CHOOSE i \in 1..10 : Digits[i] = c) - 1

RECURSIVE literal_nat(_)
literal_nat(cs) ==
    IF cs = <<>> THEN 0
    ELSE 10 * literal_nat(SubSeq(cs, 1, Len(cs) - 1)) + DigitVal(cs[Len(cs)])

\* the number a literal of the query expression denotes
literal(cs) == IF Head(cs) = "-" THEN -literal_nat(Tail(cs)) ELSE literal_nat(cs)

\* query with the bound included: >= for > and <= for <
query_inclusive(rows, expr) ==
    LET col == expr[1]
        op  == expr[2]
        lit == literal(SubSeq(expr, 3, Len(expr)))
        keep(r) == IF op = ">" THEN r[col] >= lit ELSE r[col] <= lit
    IN  SelectSeq(rows, keep)

\* data.query(expr) for the two expressions the scripts build: a column
\* name, one of the operators > and <, and a literal.  Rows keep their order.
query(rows, expr) ==
    LET col == expr[1]
        op  == expr[2]
        lit == literal(SubSeq(expr, 3, Len(expr)))
        keep(r) == IF op = ">" THEN r[col] > lit ELSE r[col] < lit
    IN  SelectSeq(rows, keep)

\* limits taken relative to the first row's depth instead of absolute
set_limits_relative(rows, p_lims) ==
    IF p_lims # NoLims /\ rows # <<>>
    THEN LET top == rows[1].p
         IN  SelectSeq(rows, LAMBDA r : r.p - top > p_lims[1] /\ r.p - top < p_lims[2])
    ELSE rows

\* "Set limits": the two queries applied when p_lims is not None
set_limits(rows, p_lims) ==
    IF p_lims # NoLims
    THEN LET p_lim_low  == <<"p", ">">> \o str(p_lims[1])
             low        == query(rows, p_lim_low)
             p_lim_high == <<"p", "<">> \o str(p_lims[2])
         IN  query(low, p_lim_high)
    ELSE rows

(***************************************************************************)
(* numpy.arange, scipy.interpolate.interp1d and interp_pts.                *)
(* An operation that can raise yields [exc, val]: exc names the exception  *)
(* raised ("" when none was) and val is the value returned.                *)
(***************************************************************************)
Ok(v) == [exc |-> "", val |-> v]
Raise(e) == [exc |-> e, val |-> <<>>]

(***************************************************************************)
(* float64.  A float64 is m * 2^e with an integer m of Precision bits; an  *)
(* operation yields the float64 nearest to its exact result, the one with  *)
(* an even m when two are equally near.  The quantities below are the      *)
(* exact differences, in units of the last bit, between the float64 values *)
(* np.arange computes and the rationals they round: small integers.        *)
(***************************************************************************)
Precision == 53

\* the greatest j with 2^j <= n/d (n > 0, d > 0)
floor_log2(n, d) ==
    CHOOSE j \in (-20)..20 :
        /\ IF j >= 0 THEN d * 2^j <= n ELSE d <= n * 2^(-j)
        /\ IF j + 1 >= 0 THEN n < d * 2^(j + 1) ELSE n * 2^(-(j + 1)) < d

\* 2^e mod b
RECURSIVE pow2mod(_, _)
pow2mod(e, b) == IF e = 0 THEN 1 % b ELSE (2 * pow2mod(e - 1, b)) % b

\* n / 2^w rounded to the nearest integer, a tie to the even one
round_half_even(n, w) ==
    IF w <= 0 THEN n * 2^(-w)
    ELSE LET f == n \div 2^w
             r == n - f * 2^w
         IN  IF 2 * r > 2^w \/ (2 * r = 2^w /\ f % 2 = 1) THEN f + 1 ELSE f

\* whether a/b (a > 0, b > 0, in lowest terms) is a float64: b is a power of 2
is_float(a, b) == \E e \in 0..20 : b = 2^e

\* the exponent k for which a/b * 2^k has Precision bits
float_exponent(a, b) == (Precision - 1) - floor_log2(a, b)

\* s_res/s_rate: the float64 nearest to a/b is a/b + float_error/(b * 2^k),
\* k == float_exponent(a, b)
float_error(a, b) ==
    LET rem == (a * pow2mod(float_exponent(a, b), b)) % b
    IN  IF 2 * rem < b THEN -rem ELSE b - rem

\* (stop - start)/step in float64, for D == stop - start a positive integer
\* and step the float64 nearest to a/b, when D/(a/b) is an integer q: whether
\* the float64 quotient is greater than q
quotient_above(D, a, b) ==
    LET eps == float_error(a, b)
        q == (D * b) \div a
        sh == floor_log2(q, 1) - floor_log2(a, b) - 1
    IN  /\ eps < 0
        /\ D * (-eps) * b * (IF sh < 0 THEN 2^(-sh) ELSE 1)
             >= a * a * (IF sh > 0 THEN 2^sh ELSE 1)

\* delta = (start + step) - start, the spacing np.arange fills the array
\* with: delta is a/b + eps/(b * 2^K), returned as <<eps, K>>
fill_delta(S, a, b) ==
    IF S = 0 THEN <<float_error(a, b), float_exponent(a, b)>>
    ELSE LET K == (Precision - 1) - floor_log2(S * b + a, b)
             w == float_exponent(a, b) - K
             remK == (a * pow2mod(K, b)) % b
             bit == (2 * ((a * pow2mod(K - 1, b)) % b) - remK) \div b
             lo == (2^w * remK + float_error(a, b)) \div b
             c == IF w = 0 THEN lo
                  ELSE IF 2 * lo > 2^w \/ (2 * lo = 2^w /\ bit = 1) THEN 1 ELSE 0
         IN  <<c * b - remK, K>>

\* the float64 values next to the integer T, above it or below it, are
\* 2^(-grid_exponent) apart
grid_exponent(T, below) ==
    (Precision - 1) - floor_log2(T, 1)
        + (IF below /\ T = 2^floor_log2(T, 1) THEN 1 ELSE 0)

\* q*delta in float64, for the exact product D + z/2^K: its distance from D
\* in units of 2^(-grid_exponent(D, z < 0))
fill_product(z, K, D) == round_half_even(z, K - grid_exponent(D, z < 0))

\* start + (D + g/2^G) in float64: how many float64 values above (> 0) or
\* below (< 0) T == start + D it is
fill_sum(g, G, T) ==
    IF g > 0 THEN round_half_even(g, G - grid_exponent(T, FALSE))
    ELSE -round_half_even(-g, G - grid_exponent(T, TRUE))

fill_from(z, K, S, D) ==
    fill_sum(fill_product(z, K, D), grid_exponent(D, z < 0), S + D)

\* start + q*delta in float64, for q == D/(a/b) an integer and delta as
\* fill_delta gives it (de): how many float64 values above (> 0) or below
\* (< 0) stop == start + D it is
fill_with(de, S, D, a) == fill_from((D * de[1]) \div a, de[2], S, D)

fill_steps(S, D, a, b) == fill_with(fill_delta(S, a, b), S, D, a)

\* the number of values of np.arange(start, stop, step):
\* ceil((stop - start)/step) computed in float64.  It differs from the exact
\* ceiling only when the exact quotient is an integer q and the float64
\* quotient rounds above it: then q + 1 values
arange_length(start, stop, step) ==
    LET q == RDiv(RSub(stop, start), step)
        a == Abs(step[1])
    IN  IF /\ q[2] = 1 /\ q[1] > 0 /\ ~is_float(a, step[2])
           /\ quotient_above(stop[1] - start[1], a, step[2])
        THEN q[1] + 1
        ELSE RCeil(q)

\* a float64 value: <<n, d>> is the float64 nearest to n/d and <<n, d, u>>
\* the float64 u values above (u > 0) or below (u < 0) the float64 n/d
stepped(r, u) == IF u = 0 THEN r ELSE <<r[1], r[2], u>>
steps(v) == IF Len(v) = 3 THEN v[3] ELSE 0
nearest(v) == <<v[1], v[2]>>
\* a < b for float64 values
FLt(a, b) == RLt(a, b) \/ (a[1] * b[2] = b[1] * a[2] /\ steps(a) < steps(b))

\* the n values start + i*step, each the float64 nearest to that rational
arange_values(start, n, step) ==
    [i \in 1..(IF n > 0 THEN n ELSE 0) |-> RAdd(start, RMul(RInt(i - 1), step))]

\* np.arange(start, stop, step) for integers start and stop: arange_length
\* values start + i*step; the value one past the exact ceiling is
\* fill_steps float64 values from stop.  A zero step raises
\* ZeroDivisionError (the length is computed as (stop - start)/step)
arange(start, stop, step) ==
    IF step[1] = 0 THEN Raise("ZeroDivisionError")
    ELSE IF arange_length(start, stop, step) > RCeil(RDiv(RSub(stop, start), step))
    THEN Ok(Append(arange_values(start, RCeil(RDiv(RSub(stop, start), step)), step),
                   stepped(stop, fill_steps(start[1], stop[1] - start[1],
                                            Abs(step[1]), step[2]))))
    ELSE Ok(arange_values(start, arange_length(start, stop, step), step))

\* np.argsort(x, kind="mergesort"): the indices of x in increasing order of
\* value, equal values in index order
argsort(x) ==
    LET before(j, i) == x[j] < x[i] \/ (x[j] = x[i] /\ j < i)
        rank(i) == Cardinality({j \in DOMAIN x : before(j, i)}) + 1
    IN  [k \in 1..Len(x) |-> CHOOSE i \in DOMAIN x : rank(i) = k]

\* interp1d(x, y): the interpolant keeps x sorted and y reordered with it
\* (assume_sorted=False); an empty x raises
interp1d(x, y) ==
    IF Len(x) < 1 THEN Raise("ValueError")
    ELSE LET ind == argsort(x)
         IN  Ok([x |-> [k \in 1..Len(x) |-> x[ind[k]]],
                 y |-> [k \in 1..Len(x) |-> y[ind[k]]]])

\* the interpolant of kind 'previous': the value of the sample at or before v
linear_previous(f, v) ==
    LET n == Len(f.x)
        j == CHOOSE k \in 1..n :
                 /\ RLe(RInt(f.x[k]), v)
                 /\ k = n \/ RLt(v, RInt(f.x[k + 1]))
    IN  RInt(f.y[j])

\* the interpolant at one point v inside [x[1], x[Len(x)]]: the line through
\* the two samples that bracket v
linear(f, v) ==
    LET n == Len(f.x)
    IN  IF v = RInt(f.x[n]) THEN RInt(f.y[n])
        ELSE LET j == CHOOSE k \in 1..(n - 1) :
                          RLe(RInt(f.x[k]), v) /\ RLt(v, RInt(f.x[k + 1]))
                 slope == RDiv(RInt(f.y[j + 1] - f.y[j]), RInt(f.x[j + 1] - f.x[j]))
             IN  RAdd(RMul(slope, RSub(v, RInt(f.x[j]))), RInt(f.y[j]))

\* calling the interpolant on an array (bounds_error=True): a point outside
\* the range of x raises
call_interp(f, x_new) ==
    IF \E i \in DOMAIN x_new :
           FLt(x_new[i], RInt(f.x[1])) \/ FLt(RInt(f.x[Len(f.x)]), x_new[i])
    THEN Raise("ValueError")
    ELSE Ok([i \in DOMAIN x_new |-> linear(f, nearest(x_new[i]))])

\* interp_pts(res, p, t, s)
interp_pts(res, p, t, s) ==
    LET temp1 == interp1d(p, t)
        salt1 == interp1d(p, s)
    IN  IF temp1.exc # "" THEN temp1
        ELSE IF salt1.exc # "" THEN salt1
        ELSE LET p_new == arange(RInt(min(p)), RInt(max(p)), res)
             IN  IF p_new.exc # "" THEN p_new
                 ELSE LET t_new == call_interp(temp1.val, p_new.val)
                          s_new == call_interp(salt1.val, p_new.val)
                      IN  IF t_new.exc # "" THEN t_new
                          ELSE IF s_new.exc # "" THEN s_new
                          ELSE Ok([p |-> p_new.val, t |-> t_new.val, s |-> s_new.val])

(***************************************************************************)
(* a[start::step]                                                          *)
(***************************************************************************)
\* the indices of a[::step]: the start is ignored
slice_indices_from_zero(n, start, step) ==
    IF step > 0
    THEN [k \in 1..(IF n = 0 THEN 0 ELSE ((n - 1) \div step) + 1) |-> (k - 1) * step]
    ELSE [k \in 1..(IF n = 0 THEN 0 ELSE ((n - 1) \div (-step)) + 1) |->
             (n - 1) + (k - 1) * step]

\* the 0-based indices slice(start, None, step) selects in an array of
\* length n, in the order the slice visits them (step # 0)
slice_indices(n, start, step) ==
    IF step > 0
    THEN LET lo0 == IF start < 0 THEN start + n ELSE start
             lo  == IF lo0 < 0 THEN 0 ELSE IF lo0 > n THEN n ELSE lo0
             cnt == IF lo >= n THEN 0 ELSE ((n - 1 - lo) \div step) + 1
         IN  [k \in 1..cnt |-> lo + (k - 1) * step]
    ELSE LET hi0 == IF start < 0 THEN start + n ELSE start
             hi  == IF hi0 < 0 THEN -1 ELSE IF hi0 >= n THEN n - 1 ELSE hi0
             cnt == IF hi < 0 THEN 0 ELSE (hi \div (-step)) + 1
         IN  [k \in 1..cnt |-> hi + (k - 1) * step]

\* a[start::step] without the last element it selects
slice_stop_early(a, start, step) ==
    IF step = 0 THEN Raise("ValueError")
    ELSE LET idx == slice_indices(Len(a), start, step)
         IN  Ok([k \in 1..(IF Len(idx) = 0 THEN 0 ELSE Len(idx) - 1) |-> a[idx[k] + 1]])

\* a[start::step]; a zero step raises
slice(a, start, step) ==
    IF step = 0 THEN Raise("ValueError")
    ELSE LET idx == slice_indices(Len(a), start, step)
         IN  Ok([k \in 1..Len(idx) |-> a[idx[k] + 1]])

(***************************************************************************)
(* The inputs explored.                                                    *)
(***************************************************************************)
\* the (temperature, salinity) pairs a sample can carry
TS == {<<0, 0>>, <<1, 2>>}

Row(p, t, s) == [p |-> p, temp |-> t, salt |-> s]

\* strictly monotonic depth columns (increasing or decreasing) of up to
\* MaxLen depths in 0..MaxDepth
DepthCols ==
    {d \in UNION {[1..n -> 0..MaxDepth] : n \in 0..MaxLen} :
        \/ \A i \in 1..(Len(d) - 1) : d[i] < d[i + 1]
        \/ \A i \in 1..(Len(d) - 1) : d[i] > d[i + 1]}

Profiles ==
    UNION {{[i \in 1..Len(d) |-> Row(d[i], v[i][1], v[i][2])] : v \in [1..Len(d) -> TS]} :
           d \in DepthCols}

\* the examples of the documentation: three samples interpolated at h = 5,
\* and a profile interpolated to 8 points
ExampleInterp == <<Row(0, 0, 0), Row(10, 1, 2), Row(20, 2, 4)>>
ExampleStride == <<Row(0, 0, 0), Row(5, 1, 2)>>
\* profiles whose span is a whole number of steps in exact arithmetic and one
\* more in float64: 7 steps of 17/7 (the value after them is 17.0) and
\* 15 steps of 11/15 (the value after them is above 27.0)
ExampleRounded == <<Row(0, 0, 0), Row(17, 1, 2)>>
ExampleAbove == <<Row(16, 0, 0), Row(27, 1, 2)>>
\* and 13 steps of 15/13: the value after them is the float64 below 15.0
ExampleBelow == <<Row(0, 0, 0), Row(15, 1, 2)>>

Windows == {<<lo, hi>> : lo \in (-1)..MaxDepth, hi \in 0..(MaxDepth + 1)}
Resolutions == {-1, 0, 1}
Rates == {-2, -1, 0, 1, 2, 3}

\* a profile descriptor ('ITP_ID', 'ITP_pf', 'inset', 'p_lims', 'interpolate',
\* 'subsample', 'plot_S'); 'og_markers' only adds markers to the plot
Descriptor(p_lims, inset, interpolate, subsample, plot_S) ==
    [ITP_ID |-> "8", ITP_pf |-> "1301", inset |-> inset, p_lims |-> p_lims,
     interpolate |-> interpolate, subsample |-> subsample, plot_S |-> plot_S]

NoFile == [exists |-> FALSE, rows |-> <<>>]
File(rows) == [exists |-> TRUE, rows |-> rows]
NoFrame == [is_none |-> TRUE, rows |-> <<>>]
Frame(rows) == [is_none |-> FALSE, rows |-> rows]
NoDat == [has_keys |-> FALSE, rows |-> <<>>]
Unset == [kind |-> "unset", p |-> <<>>, t |-> <<>>, s |-> <<>>]

NoDir == [exists |-> FALSE, files |-> {}]
Dir(files) == [exists |-> TRUE, files |-> files]

\* the frame loop and create_gif.py do not run
NoScript ==
    /\ frames = NoDir
    /\ pfs_to_plot = <<>>
    /\ ss_pfs = <<>>
    /\ loop_i = 0
    /\ range_stop = 0
    /\ gif = <<>>

\* one call of a plotting function on the csv of one profile
PlotRun(rows, f, d, res, rate, off) ==
    /\ pc = "read_csv"
    /\ dat = NoDat
    /\ pf_df = NoFrame
    /\ csv = File(rows)
    /\ fn = f
    /\ df = d
    /\ s_res = res
    /\ s_rate = rate
    /\ i_offset = off
    /\ data = <<>>
    /\ new = Unset
    /\ ss = Unset
    /\ ret = NoFrame
    /\ err = ""
    /\ stdout = <<>>
    /\ mutated = {}
    /\ NoScript

\* the depth window varies, the sampling is fixed at s_res/s_rate = 1/2
InitWindows ==
    \E rows \in Profiles, w \in Windows :
        PlotRun(rows, "separate", Descriptor(w, NoLims, TRUE, TRUE, TRUE), 1, 2, 0)

\* the sampling parameters vary, with no depth window
InitSampling ==
    \E rows \in Profiles, res \in Resolutions, rate \in Rates, off \in 0..MaxOffset :
        PlotRun(rows, "separate", Descriptor(NoLims, NoLims, TRUE, TRUE, TRUE), res, rate, off)

\* the flags of the descriptor vary
InitFlags ==
    \E rows \in Profiles, w \in {NoLims, <<-1, MaxDepth + 1>>},
       inset \in {NoLims, <<0, MaxDepth>>}, i \in BOOLEAN, sub \in BOOLEAN, pS \in BOOLEAN :
        PlotRun(rows, "together", Descriptor(w, inset, i, sub, pS), 1, 2, 0)

InitExamples ==
    \/ \E f \in {"separate", "together"}, w \in {NoLims, <<-1, 21>>} :
           PlotRun(ExampleInterp, f, Descriptor(w, NoLims, TRUE, TRUE, TRUE), 5, 1, 0)
    \/ \E f \in {"separate", "together"}, off \in 0..MaxOffset :
           PlotRun(ExampleStride, f, Descriptor(<<-1, 6>>, NoLims, TRUE, TRUE, TRUE), 2, 3, off)
    \/ \E f \in {"separate", "together"}, off \in 0..MaxOffset :
           \/ PlotRun(ExampleRounded, f, Descriptor(NoLims, NoLims, TRUE, TRUE, TRUE), 17, 7, off)
           \/ PlotRun(ExampleAbove, f, Descriptor(NoLims, NoLims, TRUE, TRUE, TRUE), 11, 15, off)
           \/ PlotRun(ExampleBelow, f, Descriptor(NoLims, NoLims, TRUE, TRUE, TRUE), 15, 13, off)

\* ITP_data_to_csv.py run on one cormat file, then the plot of its csv; a
\* temperature can be missing (NaN)
InitLoad ==
    \E rows \in Profiles, keys \in BOOLEAN :
    \E missing \in [1..Len(rows) -> {{}, {"temp"}}] :
        /\ pc = "load_cormat_itp"
        /\ dat = [has_keys |-> keys,
                  rows |-> [i \in 1..Len(rows) |->
                               [p |-> rows[i].p, temp |-> rows[i].temp,
                                salt |-> rows[i].salt, nan |-> missing[i]]]]
        /\ pf_df = NoFrame
        /\ csv = NoFile
        /\ fn = "separate"
        /\ df = Descriptor(<<-1, MaxDepth + 1>>, NoLims, TRUE, TRUE, TRUE)
        /\ s_res = 1
        /\ s_rate = 2
        /\ i_offset = 0
        /\ data = <<>>
        /\ new = Unset
        /\ ss = Unset
        /\ ret = NoFrame
        /\ err = ""
        /\ stdout = <<"Accessing">>
        /\ mutated = {}
        /\ NoScript

Init == InitWindows \/ InitSampling \/ InitFlags \/ InitExamples \/ InitLoad

(***************************************************************************)
(* ITP_data_to_csv.py                                                      *)
(***************************************************************************)
raised(e) == pc' = "raised" /\ err' = e

\* p0[0] < p0[-1]: a comparison with a missing value (NaN) is False
first_lt_last(p0) ==
    /\ "p" \notin p0[1].nan
    /\ "p" \notin p0[Len(p0)].nan
    /\ p0[1].p < p0[Len(p0)].p

\* load_cormat_itp with the comparison the other way round: p0[0] > p0[-1]
load_cormat_itp_flipped(d) ==
    IF d.has_keys
    THEN IF d.rows = <<>> THEN Raise("IndexError")
         ELSE IF d.rows[1].p > d.rows[Len(d.rows)].p THEN Ok(NoFrame)
         ELSE Ok(Frame(d.rows))
    ELSE Ok(NoFrame)

\* what load_cormat_itp(file_path) returns, or the exception it raises
load_cormat_itp(d) ==
    IF d.has_keys
    THEN IF d.rows = <<>> THEN Raise("IndexError")
         ELSE IF first_lt_last(d.rows) THEN Ok(NoFrame)
         ELSE Ok(Frame(d.rows))
    ELSE Ok(NoFrame)

\* what load_cormat_itp(file_path) prints: print('Skipping down-cast')
load_cormat_itp_prints(d) ==
    IF d.has_keys /\ d.rows # <<>> /\ first_lt_last(d.rows)
    THEN <<"Skipping down-cast">>
    ELSE <<>>

\* pf_df = load_cormat_itp(pf_file_path)
LoadCormatItp ==
    /\ pc = "load_cormat_itp"
    /\ stdout' = stdout \o load_cormat_itp_prints(dat)
    /\ LET r == load_cormat_itp(dat)
       IN  IF r.exc # ""
           THEN raised(r.exc) /\ UNCHANGED pf_df
           ELSE pf_df' = r.val /\ pc' = "dropna" /\ UNCHANGED err
    /\ UNCHANGED <<dat, csv, fn, df, s_res, s_rate, i_offset, data, new, ss, ret>>
    /\ UNCHANGED <<mutated, scriptvars>>

\* pf_df.dropna(inplace = True)
DropNa ==
    /\ pc = "dropna"
    /\ IF pf_df.is_none
       THEN raised("AttributeError") /\ UNCHANGED pf_df
       ELSE /\ pf_df' = Frame(SelectSeq(pf_df.rows, LAMBDA r : r.nan = {}))
            /\ pc' = "to_csv"
            /\ UNCHANGED err
    /\ mutated' = mutated \cup (IF pf_df' # pf_df THEN {"pf_df"} ELSE {})
    /\ UNCHANGED <<dat, csv, fn, df, s_res, s_rate, i_offset, data, new, ss, ret>>
    /\ UNCHANGED <<stdout, scriptvars>>

\* pf_df.to_csv(output_dir+filename): the columns temp, salt and p of every row
ToCsv ==
    /\ pc = "to_csv"
    /\ csv' = File([i \in 1..Len(pf_df.rows) |->
                       Row(pf_df.rows[i].p, pf_df.rows[i].temp, pf_df.rows[i].salt)])
    /\ pc' = "read_csv"
    /\ UNCHANGED <<dat, pf_df, fn, df, s_res, s_rate, i_offset, data, new, ss, ret, err>>
    /\ UNCHANGED <<stdout, mutated, scriptvars>>

(***************************************************************************)
(* plot_ITP_profile.py: plot_T_S_separate and plot_T_S_together, statement *)
(* by statement.                                                           *)
(***************************************************************************)
Rats(col) == [i \in 1..Len(col) |-> RInt(col[i])]

\* data = pd.read_csv(csv)
ReadCsv ==
    /\ pc = "read_csv"
    /\ IF csv.exists
       THEN data' = csv.rows /\ pc' = "set_limits" /\ UNCHANGED err
       ELSE raised("FileNotFoundError") /\ UNCHANGED data
    /\ UNCHANGED <<dat, pf_df, csv, fn, df, s_res, s_rate, i_offset, new, ss, ret>>
    /\ UNCHANGED <<stdout, mutated, scriptvars>>

\* p_lims = df['p_lims'] and the two queries
SetLimits ==
    /\ pc = "set_limits"
    /\ data' = set_limits(data, df.p_lims)
    /\ pc' = "interpolate"
    /\ UNCHANGED <<dat, pf_df, csv, fn, df, s_res, s_rate, i_offset, new, ss, ret, err>>
    /\ UNCHANGED <<stdout, mutated, scriptvars>>

\* whether the function interpolates, and whether it subsamples
interpolates == fn = "separate" \/ df.interpolate
subsamples == fn = "separate" \/ (df.subsample /\ df.interpolate)

\* p_new, t_new, s_new = interp_pts(s_res/s_rate, data['p'], data['temp'], data['salt'])
\* or, in plot_T_S_together without 'interpolate', the columns themselves
Interpolate ==
    /\ pc = "interpolate"
    /\ IF interpolates
       THEN IF s_rate = 0
            THEN raised("ZeroDivisionError") /\ UNCHANGED new
            ELSE LET r == interp_pts(Rat(s_res, s_rate), Col(data, "p"),
                                     Col(data, "temp"), Col(data, "salt"))
                 IN  IF r.exc # ""
                     THEN raised(r.exc) /\ UNCHANGED new
                     ELSE /\ new' = [kind |-> "ndarray", p |-> r.val.p,
                                     t |-> r.val.t, s |-> r.val.s]
                          /\ pc' = "subsample"
                          /\ UNCHANGED err
       ELSE /\ new' = [kind |-> "Series", p |-> Rats(Col(data, "p")),
                       t |-> Rats(Col(data, "temp")), s |-> Rats(Col(data, "salt"))]
            /\ pc' = "subsample"
            /\ UNCHANGED err
    /\ UNCHANGED <<dat, pf_df, csv, fn, df, s_res, s_rate, i_offset, data, ss, ret>>
    /\ UNCHANGED <<stdout, mutated, scriptvars>>

\* p_ss, t_ss, s_ss = p_new[i_offset::s_rate], t_new[i_offset::s_rate], s_new[i_offset::s_rate]
Subsample ==
    /\ pc = "subsample"
    /\ IF subsamples
       THEN LET p_ss == slice(new.p, i_offset, s_rate)
                t_ss == slice(new.t, i_offset, s_rate)
                s_ss == slice(new.s, i_offset, s_rate)
            IN  IF p_ss.exc # ""
                THEN raised(p_ss.exc) /\ UNCHANGED ss
                ELSE /\ ss' = [kind |-> "ndarray", p |-> p_ss.val,
                               t |-> t_ss.val, s |-> s_ss.val]
                     /\ pc' = "finish"
                     /\ UNCHANGED err
       ELSE pc' = "finish" /\ UNCHANGED <<ss, err>>
    /\ UNCHANGED <<dat, pf_df, csv, fn, df, s_res, s_rate, i_offset, data, new, ret>>
    /\ UNCHANGED <<stdout, mutated, scriptvars>>

\* out_dict: one row per subsampled point
out_dict ==
    [k \in 1..Len(ss.t) |->
        [ITP_ID |-> df.ITP_ID, ITP_pf |-> df.ITP_pf, i_offset |-> i_offset,
         temp |-> ss.t[k], salt |-> ss.s[k], p |-> ss.p[k]]]

\* the first statement after the subsampling that raises, "" when none does
plot_error ==
    IF fn = "separate"
    THEN IF df.p_lims = NoLims THEN "TypeError"
         ELSE IF new.t = <<>> THEN "ValueError"
         ELSE ""
    ELSE IF subsamples /\ df.p_lims = NoLims THEN "TypeError"
         ELSE IF subsamples /\ new.t = <<>> THEN "ValueError"
         ELSE IF df.inset # NoLims /\ new.kind = "ndarray" THEN "AttributeError"
         ELSE IF /\ df.inset # NoLims
                 /\ \A i \in DOMAIN new.p :
                        ~(FLt(RInt(df.inset[1]), new.p[i]) /\ FLt(new.p[i], RInt(df.inset[2])))
              THEN "ValueError"
         ELSE IF df.subsample /\ df.plot_S /\ ss.kind = "unset" THEN "UnboundLocalError"
         ELSE ""

\* the plotting statements and the return
Finish ==
    /\ pc = "finish"
    /\ IF plot_error # ""
       THEN raised(plot_error) /\ UNCHANGED ret
       ELSE /\ ret' = IF fn = "separate" \/ (df.subsample /\ df.plot_S)
                      THEN Frame(out_dict) ELSE NoFrame
            /\ pc' = "returned"
            /\ UNCHANGED err
    /\ UNCHANGED <<dat, pf_df, csv, fn, df, s_res, s_rate, i_offset, data, new, ss>>
    /\ UNCHANGED <<stdout, mutated, scriptvars>>

(***************************************************************************)
(* plot_ITP_profile.py: plot_profile and the frame loop.                   *)
(***************************************************************************)
\* the arrays a plotting function plots: interp_pts(s_res/s_rate, ...) or,
\* in plot_T_S_together without 'interpolate', the columns of the data frame
plot_arrays(f, d, rows, res, rate) ==
    IF f = "separate" \/ d.interpolate
    THEN IF rate = 0 THEN Raise("ZeroDivisionError")
         ELSE interp_pts(Rat(res, rate), Col(rows, "p"), Col(rows, "temp"), Col(rows, "salt"))
    ELSE Ok([p |-> Rats(Col(rows, "p")), t |-> Rats(Col(rows, "temp")),
             s |-> Rats(Col(rows, "salt"))])

\* pd.DataFrame(out_dict) for the subsample p_ss, t_ss, s_ss of offset off
out_table(d, off, p_ss, t_ss, s_ss) ==
    Frame([k \in 1..Len(t_ss) |->
              [ITP_ID |-> d.ITP_ID, ITP_pf |-> d.ITP_pf, i_offset |-> off,
               temp |-> t_ss[k], salt |-> s_ss[k], p |-> p_ss[k]]])

\* the statements after the subsampling, given the arrays and the subsample
plot_and_return(f, d, arrays, subs, table) ==
    IF f = "separate"
    THEN IF d.p_lims = NoLims THEN Raise("TypeError")
         ELSE IF arrays.t = <<>> THEN Raise("ValueError")
         ELSE Ok(table)
    ELSE IF subs /\ d.p_lims = NoLims THEN Raise("TypeError")
    ELSE IF subs /\ arrays.t = <<>> THEN Raise("ValueError")
    ELSE IF d.inset # NoLims /\ d.interpolate THEN Raise("AttributeError")
    ELSE IF /\ d.inset # NoLims
            /\ \A k \in DOMAIN arrays.p :
                   ~(FLt(RInt(d.inset[1]), arrays.p[k]) /\ FLt(arrays.p[k], RInt(d.inset[2])))
    THEN Raise("ValueError")
    ELSE IF d.subsample /\ d.plot_S
    THEN IF subs THEN Ok(table) ELSE Raise("UnboundLocalError")
    ELSE Ok(NoFrame)

\* the subsampling statement and what follows it
subsample_and_plot(f, d, arrays, subs, rate, off, p_ss) ==
    IF subs /\ p_ss.exc # "" THEN p_ss
    ELSE plot_and_return(f, d, arrays, subs,
             out_table(d, off, p_ss.val, slice(arrays.t, off, rate).val,
                       slice(arrays.s, off, rate).val))

\* the rest of a plotting function once the arrays to plot are computed
plot_from_arrays(f, d, r, rate, off) ==
    IF r.exc # "" THEN r
    ELSE subsample_and_plot(f, d, r.val, f = "separate" \/ (d.subsample /\ d.interpolate),
                            rate, off, slice(r.val.p, off, rate))

\* one call plot_T_S_separate(ax, d, res, rate, off) (f = "separate") or
\* plot_T_S_together(ax, d, res, rate, off) (f = "together") on the csv
\* `file`: the table it returns (None for `return y_label, None`), or the
\* exception it raises
plot_T_S(f, d, file, res, rate, off) ==
    IF ~file.exists THEN Raise("FileNotFoundError")
    ELSE plot_from_arrays(f, d, plot_arrays(f, d, set_limits(file.rows, d.p_lims), res, rate),
                          rate, off)

\* the characters the file names are made of, in the order of their code points
Alphabet == <<"-", ".", "0", "1", "2", "3", "4", "5", "6", "7", "8", "9", "_",
              "e", "f", "g", "n", "p", "s", "t">>
ord(c) == CHOOSE k \in 1..Len(Alphabet) : Alphabet[k] = c

\* a < b on Python strings
str_lt(a, b) ==
    LET n == IF Len(a) < Len(b) THEN Len(a) ELSE Len(b)
        diff == {k \in 1..n : a[k] # b[k]}
    IN  IF diff = {} THEN Len(a) < Len(b)
        ELSE LET k == CHOOSE j \in diff : \A m \in diff : j <= m
             IN  ord(a[k]) < ord(b[k])

\* sorted(names) for a collection of distinct strings
sorted(names) ==
    [k \in 1..Cardinality(names) |->
        CHOOSE a \in names : Cardinality({b \in names : str_lt(b, a)}) = k - 1]

\* a.endswith(suffix)
endswith(a, suffix) ==
    /\ Len(a) >= Len(suffix)
    /\ SubSeq(a, Len(a) - Len(suffix) + 1, Len(a)) = suffix

\* a.zfill(width) without any padding
zfill_unpadded(a, width) == a

\* a.zfill(width): zeros on the left, after the sign, up to width characters
zfill(a, width) ==
    LET zeros == [k \in 1..(width - Len(a)) |-> "0"]
    IN  IF Len(a) >= width THEN a
        ELSE IF a # <<>> /\ Head(a) \in {"-", "+"} THEN <<Head(a)>> \o zeros \o Tail(a)
        ELSE zeros \o a

frame_file_name == <<"t", "e", "s", "t", "_", "2", "_", "p", "f", "s">>
png == <<".", "p", "n", "g">>

\* the file the frame of offset off is saved to, in output_dir:
\* frame_file_name+'-'+str(i).zfill(3)+'.png'
filename(off) == frame_file_name \o <<"-">> \o zfill(str(off), 3) \o png

\* a file of the directory 'frames': its name and the picture it holds, that
\* is the run of plot_ITP_profile.py and the offset it was drawn for
FrameFile(off, run) == [name |-> filename(off), image |-> [run |-> run, i_offset |-> off]]

\* fig.savefig(name): the file is created or overwritten
savefig(dir, file) == Dir({f \in dir.files : f.name # file.name} \cup {file})

\* the step-by-step run of a plotting function ends as plot_T_S says
PlotConsistent ==
    /\ pc = "returned" => plot_T_S(fn, df, csv, s_res, s_rate, i_offset) = Ok(ret)
    /\ (pc = "raised" /\ csv.exists) =>
           plot_T_S(fn, df, csv, s_res, s_rate, i_offset) = Raise(err)

\* plot_profile left by the exception e: nothing is appended, nothing saved
plot_failed(e) == [exc |-> e, ss_pfs |-> ss_pfs, frames |-> frames]

\* `if len(pfs_to_plot) == 2:`, given what the two calls of plot_T_S_together
\* return: both values are appended to ss_pfs, then the figure is saved
two_profiles(pf0, pf1, file) ==
    IF pf0.exc # "" THEN plot_failed(pf0.exc)
    ELSE IF pf1.exc # "" THEN plot_failed(pf1.exc)
    ELSE IF ~frames.exists
    THEN [exc |-> "FileNotFoundError", ss_pfs |-> ss_pfs \o <<pf0.val, pf1.val>>,
          frames |-> frames]
    ELSE [exc |-> "", ss_pfs |-> ss_pfs \o <<pf0.val, pf1.val>>,
          frames |-> savefig(frames, file)]

\* `else:`, given what plot_T_S_separate returns
one_profile(pf) ==
    IF pf.exc # "" THEN plot_failed(pf.exc) ELSE plot_failed("ValueError")

\* plot_profile(pfs_to_plot, s_res, s_rate, i_offset, filename, ss_pf_list)
\* writing its frame to `file`: the exception it raises ("" for none), and the
\* module-level list ss_pfs and the directory 'frames' as it leaves them.
\* The body reads and appends to the module-level ss_pfs; the parameter
\* ss_pf_list does not occur in it.  With one profile the statement
\* `y_label, pf = plot_T_S_separate(...)` unpacks the six-column data frame
\* and raises ValueError.
plot_profile(pfs, res, rate, off, file, ss_pf_list) ==
    IF Len(pfs) = 2
    THEN two_profiles(plot_T_S("together", pfs[1], csv, res, rate, off),
                      plot_T_S("together", pfs[2], csv, res, rate, off), file)
    ELSE IF pfs = <<>> THEN plot_failed("IndexError")
    ELSE one_profile(plot_T_S("separate", pfs[1], csv, res, rate, off))

\* if os.path.exists(output_dir): shutil.rmtree(output_dir)
\* os.makedirs(output_dir); ss_pfs = []
MakeDirs ==
    /\ pc = "makedirs"
    /\ frames' = Dir({})
    /\ ss_pfs' = <<>>
    /\ loop_i' = 0
    /\ pc' = IF range_stop > 0 THEN "loop" ELSE "loop_done"
    /\ UNCHANGED <<dat, pf_df, csv, s_res, s_rate, err, stdout, mutated, plotvars,
                   pfs_to_plot, range_stop, gif>>

\* one iteration of `for i in range(...)`: ss_pfs = plot_profile(pfs_to_plot,
\* sample_res, sample_rate, i, filename=..., ss_pf_list=ss_pfs)
FrameLoop ==
    /\ pc = "loop"
    /\ LET r == plot_profile(pfs_to_plot, s_res, s_rate, loop_i,
                             FrameFile(loop_i, "new"), ss_pfs)
       IN  /\ ss_pfs' = r.ss_pfs
           /\ frames' = r.frames
           /\ mutated' = mutated \cup (IF r.ss_pfs # ss_pfs THEN {"ss_pfs"} ELSE {})
           /\ IF r.exc # "" THEN raised(r.exc) /\ UNCHANGED loop_i
              ELSE IF loop_i + 1 < range_stop
              THEN loop_i' = loop_i + 1 /\ UNCHANGED <<pc, err>>
              ELSE pc' = "loop_done" /\ UNCHANGED <<loop_i, err>>
    /\ UNCHANGED <<dat, pf_df, csv, s_res, s_rate, stdout, plotvars,
                   pfs_to_plot, range_stop, gif>>

(***************************************************************************)
(* create_gif.py                                                           *)
(***************************************************************************)
\* the list images: the files of png_dir in sorted order, those whose name
\* ends in '.png' only
images(dir) ==
    LET names == sorted({f.name : f \in dir.files})
        pngs == SelectSeq(names, LAMBDA a : endswith(a, png))
    IN  [k \in 1..Len(pngs) |-> (CHOOSE f \in dir.files : f.name = pngs[k]).image]

\* the frames images[0].save(gif_file, append_images=images[1:]) writes
create_gif(dir) ==
    IF ~dir.exists THEN Raise("FileNotFoundError")
    ELSE IF images(dir) = <<>> THEN Raise("IndexError")
    ELSE Ok(images(dir))

CreateGif ==
    /\ pc \in {"loop_done", "create_gif"}
    /\ stdout' = Append(stdout, "Saving gif to")
    /\ LET r == create_gif(frames)
       IN  IF r.exc # ""
           THEN raised(r.exc) /\ UNCHANGED gif
           ELSE gif' = r.val /\ pc' = "gif_saved" /\ UNCHANGED err
    /\ UNCHANGED <<dat, pf_df, csv, s_res, s_rate, mutated, plotvars,
                   frames, pfs_to_plot, ss_pfs, loop_i, range_stop>>

Next ==
    \/ LoadCormatItp
    \/ DropNa
    \/ ToCsv
    \/ ReadCsv
    \/ SetLimits
    \/ Interpolate
    \/ Subsample
    \/ Finish

Spec == Init /\ [][Next]_vars

(***************************************************************************)
(* The scripts plot_ITP_profile.py (module body) and create_gif.py.        *)
(***************************************************************************)
\* the csv files the frame loop reads: MaxLen samples from depth 0 to MaxDepth
LoopProfiles ==
    {rows \in Profiles :
        /\ Len(rows) = MaxLen
        /\ rows[1].p = 0
        /\ rows[MaxLen].p = MaxDepth
        /\ \A k \in 1..MaxLen : rows[k].temp = k % 2}

\* the descriptor as the script sets it (an inset, no window, every flag
\* False) and the descriptor with a window and every flag True
AsScripted == Descriptor(NoLims, <<0, MaxDepth>>, FALSE, FALSE, FALSE)
AllSet == Descriptor(<<-1, MaxDepth + 1>>, NoLims, TRUE, TRUE, TRUE)

LoopDescriptors ==
    {Descriptor(w, inset, a, b, c) :
        w \in {NoLims, <<-1, MaxDepth + 1>>}, inset \in {NoLims, <<0, MaxDepth>>},
        a \in BOOLEAN, b \in BOOLEAN, c \in BOOLEAN}

\* pfs_to_plot: one profile, or two
ProfileLists ==
    {<<d>> : d \in LoopDescriptors}
        \cup {<<d, e>> : d \in LoopDescriptors, e \in {AsScripted, AllSet}}

\* the directory 'frames' before the run: absent, or left by an earlier run
\* of MaxFrames + 1 offsets
EarlierRuns == {NoDir, Dir({FrameFile(k, "old") : k \in 0..MaxFrames})}

\* a run of plot_ITP_profile.py followed by create_gif.py
ScriptRun(rows, pfs, res, rate, dir, stop) ==
    /\ pc = "makedirs"
    /\ dat = NoDat
    /\ pf_df = NoFrame
    /\ csv = File(rows)
    /\ fn = "together"
    /\ df = AsScripted
    /\ s_res = res
    /\ s_rate = rate
    /\ i_offset = 0
    /\ data = <<>>
    /\ new = Unset
    /\ ss = Unset
    /\ ret = NoFrame
    /\ err = ""
    /\ stdout = <<>>
    /\ mutated = {}
    /\ frames = dir
    /\ pfs_to_plot = pfs
    /\ ss_pfs = <<>>
    /\ loop_i = 0
    /\ range_stop = stop
    /\ gif = <<>>

\* the frame loop as written, `for i in range(1)`; sample_rate, the profiles
\* and their flags vary
InitFrames ==
    \E rows \in LoopProfiles, pfs \in ProfileLists, rate \in {r \in Rates : r > 0},
       dir \in EarlierRuns :
        ScriptRun(rows, pfs, 1, rate, dir, RangeStop)

\* an entry of the directory whose name does not end in '.png'
OtherFile ==
    [name |-> frame_file_name \o <<"-", "0", "0", "0", ".", "p", "g", "f">>,
     image |-> [run |-> "other", i_offset |-> 0]]

\* create_gif.py run on its own on a directory 'frames' that holds the frames
\* of the offsets 0 .. n-1, named as the frame loop names them, with or
\* without an entry that is not a png
InitGif ==
    \E n \in 0..MaxFrames, others \in SUBSET {OtherFile} :
        /\ pc = "create_gif"
        /\ dat = NoDat
        /\ pf_df = NoFrame
        /\ csv = NoFile
        /\ fn = "together"
        /\ df = AsScripted
        /\ s_res = 1
        /\ s_rate = 1
        /\ i_offset = 0
        /\ data = <<>>
        /\ new = Unset
        /\ ss = Unset
        /\ ret = NoFrame
        /\ err = ""
        /\ stdout = <<>>
        /\ mutated = {}
        /\ frames = Dir({FrameFile(k, "new") : k \in 0..(n - 1)} \cup others)
        /\ pfs_to_plot = <<>>
        /\ ss_pfs = <<>>
        /\ loop_i = 0
        /\ range_stop = 0
        /\ gif = <<>>

NextFrames ==
    \/ MakeDirs
    \/ FrameLoop
    \/ CreateGif

SpecFrames == InitFrames /\ [][NextFrames]_vars
\* the two scripts one after the other, or create_gif.py on its own
SpecGif == (InitFrames \/ InitGif) /\ [][NextFrames]_vars

(***************************************************************************)
(* Properties.                                                             *)
(***************************************************************************)
\* interp_pts has returned its three arrays
Interpolated == new.kind = "ndarray"
\* the slicing statement has assigned p_ss, t_ss, s_ss
Subsampled == ss.kind = "ndarray"
\* the "Set limits" statements have run on the rows read from the csv
LimitsSet == csv.exists /\ pc \notin {"read_csv", "set_limits"}
\* the spacing s_res/s_rate handed to interp_pts
h == Rat(s_res, s_rate)
\* the depths of the rows handed to interp_pts
Depths == {data[i].p : i \in DOMAIN data}
SpacingPositive == s_rate # 0 /\ s_res * s_rate > 0

\* C1: for a strictly monotonic profile of at least 2 samples and a spacing
\* h > 0, the depth grid interp_pts returns is not empty, starts at the least
\* input depth, advances by exactly h from one value to the next (so it is
\* strictly increasing) and ends strictly below the greatest input depth.
C1_GridWithinProfile ==
    (Interpolated /\ Len(data) >= 2 /\ SpacingPositive) =>
        LET d_min == CHOOSE d \in Depths : \A e \in Depths : d <= e
            d_max == CHOOSE d \in Depths : \A e \in Depths : e <= d
            n == Len(new.p)
        IN  /\ n >= 1
            /\ new.p[1] = <<d_min, 1>>
            /\ \A i \in 1..(n - 1) :
                   /\ new.p[i + 1][1] * new.p[i][2] * s_rate
                        = new.p[i][1] * new.p[i + 1][2] * s_rate
                          + s_res * new.p[i][2] * new.p[i + 1][2]
                   /\ new.p[i][1] * new.p[i + 1][2] < new.p[i + 1][1] * new.p[i][2]
            /\ FLt(new.p[n], <<d_max, 1>>)
            /\ \A i \in 1..n : d_min * new.p[i][2] <= new.p[i][1]


\* the 0-based indices the subsample of phase offset o holds
SubsampleIndices(o) == slice([k \in 1..Len(new.p) |-> k - 1], o, s_rate).val

\* C2: for an interpolated profile of N samples and a stride >= 1, the
\* subsamples of the phase offsets 0..stride-1 partition the profile: every
\* index 0..N-1 is in exactly one subsample, once, and no subsample holds
\* any other index.
C2_Partition ==
    (Interpolated /\ s_rate >= 1) =>
        LET N == Len(new.p)
            places(i) == {<<o, k>> \in (0..(s_rate - 1)) \X (1..N) :
                             k <= Len(SubsampleIndices(o)) /\ SubsampleIndices(o)[k] = i}
        IN  /\ \A i \in 0..(N - 1) : Cardinality(places(i)) = 1
            /\ \A o \in 0..(s_rate - 1) : \A k \in DOMAIN SubsampleIndices(o) :
                   SubsampleIndices(o)[k] \in 0..(N - 1)

\* a profile of N samples with a stride that does not divide N
C2_Witness ==
    /\ Interpolated
    /\ s_rate >= 2
    /\ Len(new.p) > s_rate
    /\ Len(new.p) % s_rate # 0
    /\ Subsampled

\* C3: for a stride >= 1 and 0 <= phase offset < stride, the subsample is
\* the samples at the indices offset, offset+stride, offset+2*stride, ...
\* below N, in increasing index order, with depth, temperature and salinity
\* taken at the same indices; 8 samples with stride 3 and offset 1 give the
\* indices 1, 4, 7, and stride 1 with offset 0 gives the profile itself.
C3_SubsampleIndices ==
    (Subsampled /\ s_rate >= 1 /\ i_offset >= 0 /\ i_offset < s_rate) =>
        LET N == Len(new.p)
            idx == {i \in 0..(N - 1) : i >= i_offset /\ (i - i_offset) % s_rate = 0}
        IN  /\ Len(ss.p) = Cardinality(idx)
            /\ Len(ss.t) = Cardinality(idx)
            /\ Len(ss.s) = Cardinality(idx)
            /\ \A k \in 1..Cardinality(idx) :
                   /\ i_offset + (k - 1) * s_rate \in idx
                   /\ ss.p[k] = new.p[i_offset + (k - 1) * s_rate + 1]
                   /\ ss.t[k] = new.t[i_offset + (k - 1) * s_rate + 1]
                   /\ ss.s[k] = new.s[i_offset + (k - 1) * s_rate + 1]
            /\ (N = 8 /\ s_rate = 3 /\ i_offset = 1) =>
                   ss.p = <<new.p[2], new.p[5], new.p[8]>>
            /\ (s_rate = 1 /\ i_offset = 0) =>
                   (ss.p = new.p /\ ss.t = new.t /\ ss.s = new.s)

\* the documented example: 8 interpolated samples, stride 3, offset 1
C3_Witness ==
    /\ Subsampled
    /\ Len(new.p) = 8
    /\ s_rate = 3
    /\ i_offset = 1
    /\ Len(ss.p) = 3

\* load_cormat_itp has run on a file that holds the three fields and at
\* least one row
Loaded == dat.has_keys /\ dat.rows # <<>> /\ pc # "load_cormat_itp"
FirstDepth == dat.rows[1].p
LastDepth == dat.rows[Len(dat.rows)].p
\* the loader returned None: nothing is written and nothing is interpolated
Rejected == pf_df.is_none /\ ~csv.exists /\ new = Unset

\* C4, as claimed: a profile whose first depth exceeds its last depth is
\* rejected by the loader before any interpolation, a profile whose first
\* depth is less than its last depth is accepted, and no profile with
\* decreasing depths is reordered into increasing depth and interpolated.
C4_AsClaimed ==
    Loaded =>
        /\ FirstDepth > LastDepth => Rejected
        /\ FirstDepth < LastDepth => ~pf_df.is_none
        /\ ~(FirstDepth > LastDepth /\ Interpolated)

\* C4, amended: a profile whose first depth is less than its last depth (a
\* down-cast) is rejected by the loader before any interpolation, and a
\* profile whose first depth is not less than its last depth is accepted; an
\* accepted profile with decreasing depths is interpolated on a grid of
\* increasing depth that starts at its last (least) depth.
C4_DownCastRejected ==
    Loaded =>
        /\ FirstDepth < LastDepth => Rejected
        /\ FirstDepth >= LastDepth => ~pf_df.is_none
        /\ (FirstDepth > LastDepth /\ Interpolated /\ Len(data) >= 2) =>
               /\ new.p # <<>>
               /\ new.p[1] = <<data[Len(data)].p, 1>>
               /\ \A i \in 1..(Len(new.p) - 1) : RLt(new.p[i], new.p[i + 1])

\* an accepted profile of decreasing depth, written to the csv and interpolated
C4_Witness ==
    /\ Loaded
    /\ FirstDepth > LastDepth
    /\ ~pf_df.is_none
    /\ Interpolated
    /\ Len(data) >= 2
    /\ Len(new.p) >= 2

\* C5, as claimed: the subsampling statement never completes with a phase
\* offset >= stride or a stride < 1; it ends in an error instead.
C5_RejectsInvalidParameters ==
    Subsampled => (s_rate >= 1 /\ i_offset < s_rate)

\* C6, as claimed: interp_pts never returns arrays for a spacing h <= 0 or a
\* profile of fewer than 2 samples; it ends in an error instead.
C6_RejectsInvalidInput ==
    Interpolated => (SpacingPositive /\ Len(data) >= 2)

\* the positions of the rows of the csv strictly inside the window
Kept == {i \in DOMAIN csv.rows :
            df.p_lims[1] < csv.rows[i].p /\ csv.rows[i].p < df.p_lims[2]}

\* C7: with a depth window the filter keeps exactly the samples with
\* min_depth < depth < max_depth, in their order (a sample at either bound
\* is dropped); with no window every sample is kept unchanged.
C7_WindowFilter ==
    LimitsSet =>
        IF df.p_lims = NoLims THEN data = csv.rows
        ELSE /\ Len(data) = Cardinality(Kept)
             /\ \A k \in 1..Len(data) :
                    \E i \in Kept : /\ Cardinality({j \in Kept : j < i}) = k - 1
                                    /\ data[k] = csv.rows[i]

\* a window whose two bounds are depths of the profile: the samples at the
\* bounds are dropped and a sample between them is kept
C7_Witness ==
    /\ LimitsSet
    /\ df.p_lims # NoLims
    /\ \E i \in DOMAIN csv.rows : csv.rows[i].p = df.p_lims[1]
    /\ \E i \in DOMAIN csv.rows : csv.rows[i].p = df.p_lims[2]
    /\ data # <<>>
    /\ Len(data) < Len(csv.rows)

\* C8, as claimed: when the window excludes every sample of the profile the
\* filter fails, so the interpolation and plotting statements are never
\* reached with an empty profile.
C8_EmptyResultFails ==
    (LimitsSet /\ df.p_lims # NoLims /\ csv.rows # <<>> /\ data = <<>>) =>
        pc \notin {"interpolate", "subsample", "finish", "returned"}

\* the rows of the profile at the two depths next to each other that
\* bracket the depth d = dn/dd
Brackets(a, b, d) ==
    /\ a.p < b.p
    /\ \A r \in Range(data) : ~(a.p < r.p /\ r.p < b.p)
    /\ a.p * d[2] <= d[1]
    /\ d[1] <= b.p * d[2]

\* v = ya + (yb - ya) * (d - a.p) / (b.p - a.p), cross-multiplied
OnLine(v, ya, yb, a, b, d) ==
    v[1] * (b.p - a.p) * d[2]
        = v[2] * (ya * (b.p - a.p) * d[2] + (yb - ya) * (d[1] - a.p * d[2]))

\* C9: at every depth d of the grid the interpolated temperature and
\* salinity lie on the line between the two original samples whose depths
\* bracket d, and equal a sample's values where d is that sample's depth;
\* the profile (0,0,0), (10,1,2), (20,2,4) at h = 5 gives the depths
\* 0, 5, 10, 15 and the temperatures 0, 1/2, 1, 3/2.
C9_LinearInterpolation ==
    Interpolated =>
        /\ \A i \in DOMAIN new.p : \A a \in Range(data), b \in Range(data) :
               Brackets(a, b, new.p[i]) =>
                   /\ OnLine(new.t[i], a.temp, b.temp, a, b, new.p[i])
                   /\ OnLine(new.s[i], a.salt, b.salt, a, b, new.p[i])
        /\ \A i \in DOMAIN new.p : \A r \in Range(data) :
               new.p[i] = <<r.p, 1>> => (new.t[i] = <<r.temp, 1>> /\ new.s[i] = <<r.salt, 1>>)
        /\ Len(new.t) = Len(new.p)
        /\ Len(new.s) = Len(new.p)
        /\ (data = ExampleInterp /\ s_res = 5 /\ s_rate = 1) =>
               /\ new.p = << <<0, 1>>, <<5, 1>>, <<10, 1>>, <<15, 1>> >>
               /\ new.t = << <<0, 1>>, <<1, 2>>, <<1, 1>>, <<3, 2>> >>
               /\ new.s = << <<0, 1>>, <<1, 1>>, <<2, 1>>, <<3, 1>> >>

\* the documented example, interpolated
C9_Witness ==
    /\ Interpolated
    /\ data = ExampleInterp
    /\ s_res = 5
    /\ s_rate = 1
    /\ Len(new.t) = 4

\* C10: filtering the already filtered profile with the same window returns
\* the already filtered profile.
C10_FilterIdempotent ==
    LimitsSet => set_limits(data, df.p_lims) = data

\* a window that dropped the first sample and kept others
C10_Witness ==
    /\ LimitsSet
    /\ df.p_lims # NoLims
    /\ Len(data) >= 2
    /\ Len(data) < Len(csv.rows)
    /\ data[1] # csv.rows[1]

\* the offsets of the frames in the directory 'frames'
FrameOffsets == {f.image.i_offset : f \in frames.files}
\* every file of the directory was saved by this run under the name of its offset
FramesOfThisRun == \A f \in frames.files : f = FrameFile(f.image.i_offset, "new")

\* C11: one run of the frame loop produces exactly one frame for every phase
\* offset in [0, sample_rate), in increasing order of the offset, each frame
\* drawn with its own offset: while the loop runs, the frames of the offsets
\* below i exist and no others; when it has ended there is one frame for
\* each of 0 .. sample_rate-1; and the tables appended while drawing the
\* frame of an offset hold that offset.
C11_OneFramePerOffset ==
    /\ pc = "loop" => FrameOffsets = 0..(loop_i - 1)
    /\ pc = "loop_done" => FrameOffsets = 0..(s_rate - 1)
    /\ pc \in {"loop", "loop_done"} =>
          /\ FramesOfThisRun
          /\ Cardinality(frames.files) = Cardinality(FrameOffsets)
          /\ \A k \in DOMAIN ss_pfs : \A m \in DOMAIN ss_pfs[k].rows :
                 ss_pfs[k].rows[m].i_offset = (k - 1) \div Len(pfs_to_plot)

\* C12: no pipeline stage mutates a value in place: after loading,
\* missing-data removal, window filtering, interpolation, subsampling and
\* plot_profile's accumulation of the subsample tables, every value that
\* existed before the stage (the loaded data frame, the profile, the
\* interpolated arrays, the accumulator list, the module-level variables) is
\* unchanged, so that no object is ever changed in place.
C12_NothingMutated == mutated = {}

\* a run of ITP_data_to_csv.py, past the call of load_cormat_itp
LoadRun == stdout # <<>> /\ Head(stdout) = "Accessing" /\ pc # "load_cormat_itp"
\* the profile is one load_cormat_itp rejects: p0[0] < p0[-1]
DownCast == dat.has_keys /\ dat.rows # <<>> /\ first_lt_last(dat.rows)
\* the file has none of the fields te_adj, sa_adj, pr_filt
FieldsMissing == ~dat.has_keys

\* the run has told the operator why it ends: a line printed after
\* 'Accessing', or an exception other than the AttributeError of calling
\* dropna on the None that load_cormat_itp returned
Diagnosed ==
    \/ Len(stdout) > 1
    \/ pc = "raised" /\ err # "AttributeError"

\* C13: when load_cormat_itp rejects a profile (down-cast detected) or does
\* not find the required fields, the run of ITP_data_to_csv.py is terminal:
\* a diagnostic message is reported to the operator, the run goes no further
\* than the statement after the call (no retry: once it has ended no
\* statement runs), and no csv file is written.
C13_RejectedRunIsTerminal ==
    (LoadRun /\ (DownCast \/ FieldsMissing)) =>
        /\ Diagnosed
        /\ ~csv.exists
        /\ pc \in {"dropna", "raised"}
        /\ pc = "raised" => ~ENABLED Next

\* the plotting function plot_profile calls for each profile of pfs_to_plot
Plotter == IF Len(pfs_to_plot) = 2 THEN "together" ELSE "separate"
\* what the plotting function returns for profile k of pfs_to_plot at offset off
PlotOf(k, off) == plot_T_S(Plotter, pfs_to_plot[k], csv, s_res, s_rate, off)
\* the frame loop has called plot_profile and the call has ended
PlotProfileCalled ==
    /\ pfs_to_plot # <<>>
    /\ \/ pc = "loop" /\ loop_i > 0
       \/ pc \in {"loop_done", "gif_saved"}
       \/ pc = "raised" /\ gif = <<>> /\ frames.exists /\ err # "IndexError"
\* the number of calls of plot_profile that returned
Returned == IF pc \in {"loop_done", "gif_saved"} THEN loop_i + 1 ELSE loop_i

\* C14: plot_profile stores the subsample tables in the list passed as
\* ss_pf_list (the frame loop passes ss_pfs) and returns that list: a call
\* whose plotting functions all return appends, in the order of the profiles,
\* the two tables of 2 profiles or the one table of 1 profile, and returns;
\* so the list holds, call after call, what the plotting functions returned.
C14_StoresTables ==
    PlotProfileCalled =>
        /\ pc = "raised" =>
               \E k \in DOMAIN pfs_to_plot : PlotOf(k, loop_i).exc # ""
        /\ Len(ss_pfs) = Returned * Len(pfs_to_plot)
        /\ \A n \in 0..(Returned - 1) : \A k \in DOMAIN pfs_to_plot :
               ss_pfs[n * Len(pfs_to_plot) + k] = PlotOf(k, n).val

\* the frame loop has ended and create_gif.py has saved the animation
GifSaved == pc = "gif_saved"
\* a file name of the form test_2_pfs-ddd.png with three digits ddd
ThreeDigitName(a) ==
    /\ Len(a) = Len(frame_file_name) + 1 + 3 + Len(png)
    /\ \A k \in 1..3 : a[Len(frame_file_name) + 1 + k] \in Range(Digits)
    /\ endswith(a, png)

\* offsets on both sides of every change in the number of digits below 1000
ProbeOffsets == {0, 1, 9, 10, 11, 99, 100, 101, 998, 999}

\* the entries of the directory create_gif.py keeps
PngFiles == {f \in frames.files : endswith(f.name, png)}
\* the state belongs to a run of plot_ITP_profile.py
FrameLoopRan == pfs_to_plot # <<>> /\ pc \in {"loop", "loop_done", "gif_saved"}

\* C15: the animation create_gif.py builds holds the frames in increasing
\* order of the phase offset: the frame files are named with the offset
\* zero-padded to 3 digits and create_gif.py takes the '.png' entries of the
\* directory in sorted order of the file name, so the k-th frame of the gif
\* is the frame of offset k, for every number of offsets in the directory
\* (the names of offsets below 1000 sort in the order of the offsets); and
\* since the frame loop deletes and recreates the directory first, every
\* frame there after the loop is one of this run.
C15_GifInOffsetOrder ==
    /\ \A a \in ProbeOffsets, b \in ProbeOffsets :
           a < b => str_lt(filename(a), filename(b))
    /\ FrameLoopRan =>
           \A f \in frames.files : f.image.run = "new" /\ ThreeDigitName(f.name)
    /\ GifSaved =>
           /\ Len(gif) = Cardinality(PngFiles)
           /\ FrameLoopRan => Len(gif) = range_stop
           /\ \A k \in 1..Len(gif) : gif[k] = [run |-> "new", i_offset |-> k - 1]

\* an animation of more than ten frames, from a directory with an entry that
\* is not a png: the frame of offset 10 comes after the frame of offset 9 and
\* not after the frame of offset 1
C15_Witness ==
    /\ GifSaved
    /\ Len(gif) > 10
    /\ gif[11].i_offset = 10
    /\ gif[3].i_offset = 2
    /\ frames.files # PngFiles

\* the table of the subsample of the given i_offset
SubsampleTable == Frame(out_dict)

\* C16: for every combination of the flags interpolate, subsample, plot_S and
\* every p_lims (None or a window), plot_T_S_together completes without
\* referencing an undefined name (UnboundLocalError) or subscripting None
\* (TypeError), and it returns a table exactly when subsample and plot_S are
\* both set, the table of the subsample computed for the given i_offset.
C16_TogetherCompletes ==
    fn = "together" =>
        /\ err \notin {"UnboundLocalError", "TypeError"}
        /\ pc = "returned" =>
               /\ ~ret.is_none <=> (df.subsample /\ df.plot_S)
               /\ ~ret.is_none => (Subsampled /\ ret = SubsampleTable)

====
